---- MODULE Spec2Model ----
(***************************************************************************)
(* Model of src/main.rs: the State struct (swapchain descriptor, swap      *)
(* chain, stored size, cursor position, levers, index buffers), its        *)
(* methods resize / input / render, handle_exit, and the closure passed to *)
(* event_loop.run.  One action per arm of the closure's match.             *)
(***************************************************************************)
EXTENDS Integers, Sequences, FiniteSets, TLC

\* ---------------------------------------------------------------- bounds
\* window widths and heights range over 0..MaxDim
MaxDim == 1
\* cursor coordinates range over 0..MaxPos
MaxPos == 1
\* swap chains created after the one made by State::new
MaxSwapChains == 2
\* ------------------------------------------------------- geometry data
INDICES == <<0, 1, 4, 1, 2, 4, 2, 3, 4, 0>>

SECOND_INDICES == <<0, 1, 4, 2, 3, 4, 0>>

\* bitflags! Levers: u32
LEVER1 == 1

LEVER2 == 2

\* Levers::empty()
LeversEmpty == 0

\* Levers::contains for a single-bit flag
Contains(l, flag) == (l \div flag) % 2 = 1

\* l | flag, for a single-bit flag
BitOr(l, flag) == IF Contains(l, flag) THEN l ELSE l + flag

\* l & !flag, for a single-bit flag
BitAndNot(l, flag) == IF Contains(l, flag) THEN l - flag ELSE l

\* bytemuck::cast_slice::<u16, u8>: two little-endian bytes per index
CastSlice(s) ==
    [i \in 1..(2 * Len(s)) |->
        IF i % 2 = 1 THEN s[(i + 1) \div 2] % 256 ELSE s[i \div 2] \div 256]

\* device.create_buffer_init(&BufferInitDescriptor { label, contents, usage })
CreateBufferInit(label, contents, usage) ==
    [label |-> label, contents |-> contents, usage |-> usage]

\* ------------------------------------------------------ input alphabets
Sizes == [width : 0..MaxDim, height : 0..MaxDim]

Positions == [x : 0..MaxPos, y : 0..MaxPos]

Formats == {"Bgra8UnormSrgb", "Rgba8UnormSrgb"}

ElementStates == {"Pressed", "Released"}

\* virtual_keycode: Some(Space), Some(Escape), Some(any other key), None
VirtualKeyCodes == {"Space", "Escape", "A", "None"}

WindowEvents ==
    [kind : {"CursorMoved"}, position : Positions]
    \cup [kind : {"KeyboardInput"}, state : ElementStates,
          virtual_keycode : VirtualKeyCodes]
    \cup [kind : {"CloseRequested"}]
    \cup [kind : {"Resized"}, size : Sizes]
    \cup [kind : {"ScaleFactorChanged"}, new_inner_size : Sizes]
    \cup [kind : {"Focused"}]

\* results of swap_chain.get_current_frame()
SwapChainErrors == {"Timeout", "Outdated", "Lost", "OutOfMemory"}

FrameResults == {"Ok"} \cup SwapChainErrors

\* --------------------------------------------------------------- state
\* state:         the State value owned by the closure
\* control_flow:  *control_flow
\* event:         the event the closure was last called with
\* acquired, render_result, submitted, log: what the last call of the
\*   closure did: the result of get_current_frame(), the value render()
\*   returned, the command buffers given to queue.submit, the lines logged
VARIABLES state, control_flow, event, acquired, render_result, submitted, log

vars == <<state, control_flow, event, acquired, render_result, submitted, log>>

\* device.create_swap_chain(&surface, &sc_desc): a new swap chain, built
\* from the descriptor; id tells one swap chain from the next
CreateSwapChain(prev_id, desc) == [id |-> prev_id + 1, desc |-> desc]

\* State::new: the fields of State the operations below read or write
New(size, format) ==
    LET sc_desc == [usage |-> "RENDER_ATTACHMENT", format |-> format,
                    width |-> size.width, height |-> size.height,
                    present_mode |-> "Fifo"]
    IN  [sc_desc |-> sc_desc,
         swap_chain |-> [id |-> 0, desc |-> sc_desc],
         size |-> size,
         mouse_pos |-> [x |-> 0, y |-> 0],
         index_buffer |->
             CreateBufferInit("Index Buffer", CastSlice(INDICES), "INDEX"),
         second_index_buffer |->
             CreateBufferInit("Second Index Buffer",
                              CastSlice(SECOND_INDICES), "INDEX"),
         num_indices |-> Len(INDICES),
         second_num_indices |-> Len(SECOND_INDICES),
         levers |-> LeversEmpty]

\* State::resize filling the descriptor from self.size before storing the
\* new size
Resize_StaleSize(self, new_size) ==
    LET desc == [self.sc_desc EXCEPT !.width = self.size.width,
                                     !.height = self.size.height]
    IN  [self EXCEPT !.size = new_size,
                     !.sc_desc = desc,
                     !.swap_chain = CreateSwapChain(self.swap_chain.id, desc)]

\* State::resize creating the swap chain before it updates the descriptor
Resize_CreateFirst(self, new_size) ==
    LET desc == [self.sc_desc EXCEPT !.width = new_size.width,
                                     !.height = new_size.height]
    IN  [self EXCEPT !.size = new_size,
                     !.sc_desc = desc,
                     !.swap_chain =
                         CreateSwapChain(self.swap_chain.id, self.sc_desc)]

\* State::resize
Resize(self, new_size) ==
    LET desc == [self.sc_desc EXCEPT !.width = new_size.width,
                                     !.height = new_size.height]
    IN  [self EXCEPT !.size = new_size,
                     !.sc_desc = desc,
                     !.swap_chain = CreateSwapChain(self.swap_chain.id, desc)]

\* State::input with the Released arm also setting the lever (| for & !)
Input_ReleaseSets(self, we) ==
    IF we.kind = "CursorMoved"
    THEN [self |-> [self EXCEPT !.mouse_pos = [x |-> we.position.x,
                                                y |-> we.position.y]],
          ret |-> TRUE]
    ELSE IF we.kind = "KeyboardInput" /\ we.virtual_keycode = "Space"
    THEN [self |-> [self EXCEPT !.levers = BitOr(self.levers, LEVER1)],
          ret |-> TRUE]
    ELSE [self |-> self, ret |-> FALSE]

\* State::input whose inner `_ => false` arm returns true: every keyboard
\* event counts as handled
Input_ConsumesKeys(self, we) ==
    IF we.kind = "CursorMoved"
    THEN [self |-> [self EXCEPT !.mouse_pos = [x |-> we.position.x,
                                                y |-> we.position.y]],
          ret |-> TRUE]
    ELSE IF we.kind = "KeyboardInput" /\ we.virtual_keycode = "Space"
    THEN IF we.state = "Pressed"
         THEN [self |-> [self EXCEPT !.levers = BitOr(self.levers, LEVER1)],
               ret |-> TRUE]
         ELSE [self |-> [self EXCEPT !.levers = BitAndNot(self.levers, LEVER1)],
               ret |-> TRUE]
    ELSE IF we.kind = "KeyboardInput"
    THEN [self |-> self, ret |-> TRUE]
    ELSE [self |-> self, ret |-> FALSE]

\* State::input: the new State and the returned bool
Input(self, we) ==
    IF we.kind = "CursorMoved"
    THEN [self |-> [self EXCEPT !.mouse_pos = [x |-> we.position.x,
                                                y |-> we.position.y]],
          ret |-> TRUE]
    ELSE IF we.kind = "KeyboardInput" /\ we.virtual_keycode = "Space"
    THEN IF we.state = "Pressed"
         THEN [self |-> [self EXCEPT !.levers = BitOr(self.levers, LEVER1)],
               ret |-> TRUE]
         ELSE [self |-> [self EXCEPT !.levers = BitAndNot(self.levers, LEVER1)],
               ret |-> TRUE]
    ELSE [self |-> self, ret |-> FALSE]

\* State::render drawing the secondary buffer with the primary count
Render_MixedPair(self, frame) ==
    IF frame # "Ok"
    THEN [ret |-> frame, submit |-> <<>>]
    ELSE LET data == IF Contains(self.levers, LEVER1)
                     THEN <<self.second_index_buffer, self.num_indices>>
                     ELSE <<self.index_buffer, self.num_indices>>
         IN  [ret |-> "Ok",
              submit |-> <<[index_buffer |-> data[1],
                            index_format |-> "Uint16",
                            draw_indexed |-> [start |-> 0, end |-> data[2]],
                            instances |-> 1]>>]

\* State::render, given what get_current_frame() returns: the Result and
\* the command buffers handed to queue.submit
Render(self, frame) ==
    IF frame # "Ok"
    THEN [ret |-> frame, submit |-> <<>>]
    ELSE LET data == IF Contains(self.levers, LEVER1)
                     THEN <<self.second_index_buffer, self.second_num_indices>>
                     ELSE <<self.index_buffer, self.num_indices>>
         IN  [ret |-> "Ok",
              submit |-> <<[index_buffer |-> data[1],
                            index_format |-> "Uint16",
                            draw_indexed |-> [start |-> 0, end |-> data[2]],
                            instances |-> 1]>>]

\* handle_exit: the lines logged and the ControlFlow returned
handle_exit(why) ==
    LET reason == CASE why = "CloseRequest" -> "Close request received."
                    [] why = "Escape" -> "Escape received"
                    [] why = "OOM" -> "System is OOM"
    IN  [log |-> << <<"debug", reason>>, <<"info", "Bye">> >>,
         ret |-> "Exit"]

\* ------------------------------------------------------------ behaviour
\* main, up to event_loop.run: window built, State::new succeeded
Init ==
    /\ \E size \in Sizes, format \in Formats : state = New(size, format)
    /\ control_flow = "Poll"
    /\ event = [type |-> "None"]
    /\ acquired = "None"
    /\ render_result = "None"
    /\ submitted = <<>>
    /\ log = <<>>

\* the arms of the closure that never reach render
NoRender ==
    /\ acquired' = "None"
    /\ render_result' = "None"
    /\ submitted' = <<>>

\* the body of the WindowEvent arm with the Escape pattern missing
\* `state: ElementState::Pressed`: an Escape release exits too
WindowEventArm_AnyEscape(self, cf, we) ==
    LET in == Input(self, we)
        exit == IF we.kind = "CloseRequested"
                THEN handle_exit("CloseRequest")
                ELSE handle_exit("Escape")
    IN  IF in.ret
        THEN [state |-> in.self, control_flow |-> cf, log |-> <<>>]
        ELSE IF \/ we.kind = "CloseRequested"
                \/ /\ we.kind = "KeyboardInput"
                   /\ we.virtual_keycode = "Escape"
        THEN [state |-> in.self, control_flow |-> exit.ret, log |-> exit.log]
        ELSE IF we.kind = "Resized"
        THEN [state |-> Resize(in.self, we.size), control_flow |-> cf,
              log |-> <<>>]
        ELSE IF we.kind = "ScaleFactorChanged"
        THEN [state |-> Resize(in.self, we.new_inner_size),
              control_flow |-> cf, log |-> <<>>]
        ELSE [state |-> in.self, control_flow |-> cf, log |-> <<>>]

\* the body of the WindowEvent arm: offer the event to input, then
\* classify what input did not handle
WindowEventArm(self, cf, we) ==
    LET in == Input(self, we)
        exit == IF we.kind = "CloseRequested"
                THEN handle_exit("CloseRequest")
                ELSE handle_exit("Escape")
    IN  IF in.ret
        THEN [state |-> in.self, control_flow |-> cf, log |-> <<>>]
        ELSE IF \/ we.kind = "CloseRequested"
                \/ /\ we.kind = "KeyboardInput"
                   /\ we.state = "Pressed"
                   /\ we.virtual_keycode = "Escape"
        THEN [state |-> in.self, control_flow |-> exit.ret, log |-> exit.log]
        ELSE IF we.kind = "Resized"
        THEN [state |-> Resize(in.self, we.size), control_flow |-> cf,
              log |-> <<>>]
        ELSE IF we.kind = "ScaleFactorChanged"
        THEN [state |-> Resize(in.self, we.new_inner_size),
              control_flow |-> cf, log |-> <<>>]
        ELSE [state |-> in.self, control_flow |-> cf, log |-> <<>>]

\* the match on state.render() with the Lost arm made fatal, like
\* OutOfMemory
RedrawArm_LostExits(self, cf, ret) ==
    LET exit == handle_exit("OOM")
    IN  IF ret = "Ok"
        THEN [state |-> self, control_flow |-> cf, log |-> <<>>]
        ELSE IF ret = "Lost" \/ ret = "OutOfMemory"
        THEN [state |-> self, control_flow |-> exit.ret, log |-> exit.log]
        ELSE [state |-> self, control_flow |-> cf,
              log |-> << <<"error", ret>> >>]

\* the match on state.render() with the value of handle_exit dropped
\* instead of assigned to *control_flow
RedrawArm_ExitDropped(self, cf, ret) ==
    LET exit == handle_exit("OOM")
    IN  IF ret = "Ok"
        THEN [state |-> self, control_flow |-> cf, log |-> <<>>]
        ELSE IF ret = "Lost"
        THEN [state |-> Resize(self, self.size), control_flow |-> cf,
              log |-> <<>>]
        ELSE IF ret = "OutOfMemory"
        THEN [state |-> self, control_flow |-> cf, log |-> exit.log]
        ELSE [state |-> self, control_flow |-> cf,
              log |-> << <<"error", ret>> >>]

\* the match on state.render() without the Lost arm: Lost is logged like
\* the other errors
RedrawArm_LostLogged(self, cf, ret) ==
    LET exit == handle_exit("OOM")
    IN  IF ret = "Ok"
        THEN [state |-> self, control_flow |-> cf, log |-> <<>>]
        ELSE IF ret = "OutOfMemory"
        THEN [state |-> self, control_flow |-> exit.ret, log |-> exit.log]
        ELSE [state |-> self, control_flow |-> cf,
              log |-> << <<"error", ret>> >>]

\* the match on state.render() in the RedrawRequested arm
RedrawArm(self, cf, ret) ==
    LET exit == handle_exit("OOM")
    IN  IF ret = "Ok"
        THEN [state |-> self, control_flow |-> cf, log |-> <<>>]
        ELSE IF ret = "Lost"
        THEN [state |-> Resize(self, self.size), control_flow |-> cf,
              log |-> <<>>]
        ELSE IF ret = "OutOfMemory"
        THEN [state |-> self, control_flow |-> exit.ret, log |-> exit.log]
        ELSE [state |-> self, control_flow |-> cf,
              log |-> << <<"error", ret>> >>]

\* Event::WindowEvent { event, window_id } if window_id == window.id()
WindowEventOwned ==
    \E we \in WindowEvents :
        LET r == WindowEventArm(state, control_flow, we)
        IN  /\ r.state.swap_chain.id <= MaxSwapChains
            /\ event' = [type |-> "WindowEvent", window_id |-> "window",
                         event |-> we]
            /\ state' = r.state
            /\ control_flow' = r.control_flow
            /\ log' = r.log
            /\ NoRender

\* a WindowEvent whose window_id is not window.id(): the arm's guard fails
\* and the event falls to `_ => {}`
WindowEventForeign ==
    \E we \in WindowEvents :
        /\ event' = [type |-> "WindowEvent", window_id |-> "other",
                     event |-> we]
        /\ log' = <<>>
        /\ NoRender
        /\ UNCHANGED <<state, control_flow>>

\* Event::RedrawRequested(_): update (empty), render, classify the result
RedrawRequested ==
    \E frame \in FrameResults :
        LET rendered == Render(state, frame)
            r == RedrawArm(state, control_flow, rendered.ret)
        IN  /\ r.state.swap_chain.id <= MaxSwapChains
            /\ event' = [type |-> "RedrawRequested"]
            /\ acquired' = frame
            /\ render_result' = rendered.ret
            /\ submitted' = rendered.submit
            /\ state' = r.state
            /\ control_flow' = r.control_flow
            /\ log' = r.log

\* Event::MainEventsCleared: window.request_redraw(); the window answers
\* with a later RedrawRequested, which is always enabled here
MainEventsCleared ==
    /\ event' = [type |-> "MainEventsCleared"]
    /\ log' = <<>>
    /\ NoRender
    /\ UNCHANGED <<state, control_flow>>

\* any other Event (NewEvents, Suspended, LoopDestroyed, ...): `_ => {}`
OtherEvent ==
    /\ event' = [type |-> "NewEvents"]
    /\ log' = <<>>
    /\ NoRender
    /\ UNCHANGED <<state, control_flow>>

Next ==
    \/ WindowEventOwned
    \/ WindowEventForeign
    \/ RedrawRequested
    \/ MainEventsCleared
    \/ OtherEvent

Spec == Init /\ [][Next]_vars

\* ------------------------------------------------------ event predicates
\* e is a window event of the owned window, the only events offered to input
Offered(e) == e.type = "WindowEvent" /\ e.window_id = "window"

IsKey(e, key, st) ==
    /\ Offered(e)
    /\ e.event.kind = "KeyboardInput"
    /\ e.event.virtual_keycode = key
    /\ e.event.state = st

IsSpaceKey(e) == IsKey(e, "Space", "Pressed") \/ IsKey(e, "Space", "Released")

IsRedraw(e) == e.type = "RedrawRequested"

\* ---------------------------------------------------------------- C1
\* C1: over any sequence of events offered to input, a Space press leaves
\* LEVER1 set, a Space release leaves it clear, and every other event (a
\* key other than Space, a non-keyboard event, an event not offered to
\* input) leaves levers as they were; so LEVER1 is set exactly when the
\* most recent Space key event was a press.
C1_LeverFollowsSpace ==
    [][ /\ IsKey(event', "Space", "Pressed") => Contains(state'.levers, LEVER1)
        /\ IsKey(event', "Space", "Released") => ~Contains(state'.levers, LEVER1)
        /\ ~IsSpaceKey(event') => state'.levers = state.levers
      ]_vars

\* Space was pressed and then released after the swap chain was rebuilt
\* twice: LEVER1 is clear again
C1_Witness ==
    /\ IsKey(event, "Space", "Released")
    /\ ~Contains(state.levers, LEVER1)
    /\ state.swap_chain.id = 2

\* ---------------------------------------------------------------- C2
\* C2: every successful render submits one command buffer whose bound
\* index buffer and drawn count are both the secondary pair when LEVER1 is
\* set at that render, and both the primary pair when it is clear.
C2_BufferSelection ==
    [][ (IsRedraw(event') /\ render_result' = "Ok") =>
            /\ Len(submitted') = 1
            /\ IF Contains(state.levers, LEVER1)
               THEN /\ submitted'[1].index_buffer = state.second_index_buffer
                    /\ submitted'[1].draw_indexed =
                           [start |-> 0, end |-> state.second_num_indices]
               ELSE /\ submitted'[1].index_buffer = state.index_buffer
                    /\ submitted'[1].draw_indexed =
                           [start |-> 0, end |-> state.num_indices]
      ]_vars

\* a frame rendered with LEVER1 set bound the secondary index buffer
C2_Witness ==
    /\ IsRedraw(event)
    /\ render_result = "Ok"
    /\ Contains(state.levers, LEVER1)
    /\ submitted[1].index_buffer.label = "Second Index Buffer"
    /\ state.index_buffer # state.second_index_buffer

\* ---------------------------------------------------------------- C3
\* C3: a frame rendered while LEVER1 is set (Space held) draws exactly 6
\* indices, and a frame rendered while it is clear draws exactly 9: the
\* logical count, not the padded one.
C3_LogicalCountDrawn ==
    (IsRedraw(event) /\ render_result = "Ok") =>
        submitted[1].draw_indexed =
            [start |-> 0,
             end |-> IF Contains(state.levers, LEVER1) THEN 6 ELSE 9]

\* ---------------------------------------------------------------- C4
\* C4: both index buffers created at startup have contents whose byte
\* length is a multiple of 4, and hold at least their logical index count
\* (9 for the primary, 6 for the secondary) of u16 elements.
C4_IndexAlignment ==
    \A b \in {<<state.index_buffer, 9>>, <<state.second_index_buffer, 6>>} :
        /\ Len(b[1].contents) % 4 = 0
        /\ b[2] <= Len(b[1].contents) \div 2

\* ---------------------------------------------------------------- C5
\* e is a Resized or ScaleFactorChanged event of the owned window
IsResize(e) == Offered(e) /\ e.event.kind \in {"Resized", "ScaleFactorChanged"}

\* the size a resize event carries
ResizeTo(e) ==
    IF e.event.kind = "Resized" THEN e.event.size ELSE e.event.new_inner_size

\* C5: a resize(S) that directly follows a resize(S) leaves the swapchain
\* descriptor and the stored size as the first one left them, and no call
\* of resize (from a resize event or after a Lost frame) changes the
\* descriptor's format, usage or present mode.
C5_ResizeIdempotent ==
    [][ /\ (IsResize(event) /\ IsResize(event') /\ ResizeTo(event') = ResizeTo(event))
            => /\ state'.sc_desc = state.sc_desc
               /\ state'.size = state.size
        /\ (IsResize(event') \/ (IsRedraw(event') /\ render_result' = "Lost"))
            => /\ state'.sc_desc.format = state.sc_desc.format
               /\ state'.sc_desc.usage = state.sc_desc.usage
               /\ state'.sc_desc.present_mode = state.sc_desc.present_mode
      ]_vars

\* two resize events of the same size were handled, the second an event of
\* the other kind, starting from a window of another size
C5_Witness ==
    /\ IsResize(event)
    /\ event.event.kind = "ScaleFactorChanged"
    /\ state.swap_chain.id = 2
    /\ state.size = ResizeTo(event)
    /\ state.size = [width |-> MaxDim, height |-> 0]

\* ---------------------------------------------------------------- C6
\* C6: in every state the swapchain descriptor's width and height equal the
\* stored size and the swap chain is the one created from that descriptor;
\* a Resized or ScaleFactorChanged event of the owned window stores the
\* size it carries and creates a new swap chain, and the stored size
\* changes on no other event.
C6_SizeMirrorsResize ==
    /\ [](/\ state.sc_desc.width = state.size.width
          /\ state.sc_desc.height = state.size.height
          /\ state.swap_chain.desc = state.sc_desc)
    /\ [][ /\ IsResize(event') =>
                /\ state'.size = ResizeTo(event')
                /\ state'.swap_chain.id = state.swap_chain.id + 1
           /\ ~IsResize(event') => state'.size = state.size
         ]_vars

\* the window was resized to a size other than its current one
C6_Witness ==
    /\ IsResize(event)
    /\ state.swap_chain.id = 1
    /\ state.size = ResizeTo(event)
    /\ state.sc_desc.width = MaxDim
    /\ state.sc_desc.height = MaxDim

\* ---------------------------------------------------------------- C7
\* C7: a redraw whose render fails with Lost calls resize with the stored
\* size: a new swap chain is created from the unchanged descriptor, stored
\* size and descriptor stay as they were and the control flow is left
\* alone; the next redraw, if its acquisition succeeds, returns Ok.
C7_LostRecreates ==
    [][ /\ (IsRedraw(event') /\ render_result' = "Lost") =>
                /\ state'.swap_chain =
                       CreateSwapChain(state.swap_chain.id, state.sc_desc)
                /\ state'.size = state.size
                /\ state'.sc_desc = state.sc_desc
                /\ control_flow' = control_flow
        /\ (/\ IsRedraw(event) /\ render_result = "Lost"
            /\ IsRedraw(event') /\ acquired' = "Ok") => render_result' = "Ok"
      ]_vars

\* a Lost frame was handled in a running loop: the swap chain is a new one
C7_Witness ==
    /\ IsRedraw(event)
    /\ render_result = "Lost"
    /\ state.swap_chain.id = 1
    /\ control_flow = "Poll"
    /\ state.size = [width |-> MaxDim, height |-> MaxDim]

\* ---------------------------------------------------------------- C8
\* C8: a redraw whose render fails with OutOfMemory sets the control flow
\* to Exit, logs the debug line "System is OOM" and then the info line
\* "Bye", creates no swap chain and submits no command buffer.
C8_OomExits ==
    [][ (IsRedraw(event') /\ render_result' = "OutOfMemory") =>
            /\ control_flow' = "Exit"
            /\ log' = << <<"debug", "System is OOM">>, <<"info", "Bye">> >>
            /\ state'.swap_chain = state.swap_chain
            /\ submitted' = <<>>
      ]_vars

\* an OutOfMemory frame ended a loop that had rendered with LEVER1 set
C8_Witness ==
    /\ IsRedraw(event)
    /\ render_result = "OutOfMemory"
    /\ control_flow = "Exit"
    /\ Len(log) = 2
    /\ Contains(state.levers, LEVER1)

\* ---------------------------------------------------------------- C9
\* C9 as stated: when frame acquisition returns Lost or Outdated, the
\* handler of that redraw creates a new swap chain.
C9_LostOrOutdatedRecreates ==
    [][ (IsRedraw(event') /\ acquired' \in {"Lost", "Outdated"}) =>
            state'.swap_chain.id = state.swap_chain.id + 1
      ]_vars

\* C9 amended: when frame acquisition returns Lost, the handler of that
\* redraw creates a new swap chain; when it returns Outdated, the handler
\* only logs the error and leaves State, swap chain included, and the
\* control flow as they were.
C9_OnlyLostRecreates ==
    [][ /\ (IsRedraw(event') /\ acquired' = "Lost") =>
                state'.swap_chain.id = state.swap_chain.id + 1
        /\ (IsRedraw(event') /\ acquired' = "Outdated") =>
                /\ state' = state
                /\ control_flow' = control_flow
                /\ log' = << <<"error", "Outdated">> >>
      ]_vars

\* an Outdated frame was handled after an earlier swap chain rebuild
C9_Witness ==
    /\ IsRedraw(event)
    /\ acquired = "Outdated"
    /\ log = << <<"error", "Outdated">> >>
    /\ state.swap_chain.id = 1

\* --------------------------------------------------------------- C10
\* e asks the driver to shut down: CloseRequested or an Escape press
IsExitEvent(e) ==
    Offered(e) /\ (e.event.kind = "CloseRequested" \/ IsKey(e, "Escape", "Pressed"))

IsCursorMoved(e) == Offered(e) /\ e.event.kind = "CursorMoved"

\* C10: input returns false on an Escape press and on CloseRequested and
\* leaves State unchanged, and either event for the owned window sets the
\* control flow to Exit whatever the state; mouse_pos changes only on a
\* CursorMoved event of the owned window, to that event's position, so at
\* exit it is the position of the last CursorMoved event.
C10_ExitNotConsumed ==
    [][ /\ IsExitEvent(event') =>
                /\ Input(state, event'.event) = [self |-> state, ret |-> FALSE]
                /\ control_flow' = "Exit"
                /\ state'.mouse_pos = state.mouse_pos
                /\ state'.levers = state.levers
        /\ IsCursorMoved(event') => state'.mouse_pos = event'.event.position
        /\ ~IsCursorMoved(event') => state'.mouse_pos = state.mouse_pos
      ]_vars

\* Escape was pressed with LEVER1 set and the cursor away from the origin
C10_Witness ==
    /\ IsKey(event, "Escape", "Pressed")
    /\ control_flow = "Exit"
    /\ state.mouse_pos = [x |-> MaxPos, y |-> MaxPos]
    /\ Contains(state.levers, LEVER1)
    /\ log = << <<"debug", "Escape received">>, <<"info", "Bye">> >>

\* --------------------------------------------------------------- C11
\* C11: the control flow becomes Exit only in the handler of a
\* CloseRequested event or an Escape press of the owned window, or of a
\* redraw whose render returned OutOfMemory; no other event (one consumed
\* by input, one of another window, a resize, a Lost, Outdated or Timeout
\* frame) sets it, and once it is Exit every handler leaves it Exit.
C11_ExitOnlyOnRequest ==
    [][ /\ (control_flow # "Exit" /\ control_flow' = "Exit") =>
                \/ IsExitEvent(event')
                \/ IsRedraw(event') /\ render_result' = "OutOfMemory"
        /\ control_flow = "Exit" => control_flow' = "Exit"
      ]_vars

\* a close request ended a loop that had rebuilt its swap chain twice
C11_Witness ==
    /\ Offered(event)
    /\ event.event.kind = "CloseRequested"
    /\ control_flow = "Exit"
    /\ log = << <<"debug", "Close request received.">>, <<"info", "Bye">> >>
    /\ state.swap_chain.id = 2

====
